---- MODULE Spec2Model ----
(***************************************************************************)
(* Rope simulator (ropesim.py): point masses, fixed anchors and tension-   *)
(* only ropes advanced by a fixed-timestep loop that records snapshots.    *)
(*                                                                         *)
(* Numbers.  The program computes in floats.  Here a number is an integer  *)
(* count of 1/Scale units and every multiplication, division and square    *)
(* root rounds its exact result to the nearest representable value, ties   *)
(* to even, symmetrically in the sign, as IEEE-754 arithmetic does.        *)
(* Additions and subtractions of such values are exact.                    *)
(***************************************************************************)
EXTENDS Integers, Sequences, FiniteSets, TLC

\* Resolution of a number: one unit is 1/Scale.
Scale == 1000

\* Largest duration_seconds of the explored settings, in tenths of a second.
MaxDuration == 10

Abs(a) == IF a < 0 THEN -a ELSE a

Sign(a) == IF a < 0 THEN -1 ELSE IF a > 0 THEN 1 ELSE 0

\* n / d rounded to the nearest integer, ties to even (d # 0).
RoundDiv(n, d) ==
    LET q == Abs(n) \div Abs(d)
        rem == Abs(n) % Abs(d)
        up == 2 * rem > Abs(d) \/ (2 * rem = Abs(d) /\ q % 2 = 1)
    IN  Sign(n) * Sign(d) * (IF up THEN q + 1 ELSE q)

\* a * b
FMul(a, b) == RoundDiv(a * b, Scale)

\* a / b (b # 0)
FDiv(a, b) == RoundDiv(a * Scale, b)

RECURSIVE ISqrtIn(_, _, _)
\* the largest s in lo..hi with s * s <= v
ISqrtIn(lo, hi, v) ==
    IF lo >= hi THEN lo
    ELSE CHOOSE s \in { IF mid * mid <= v THEN ISqrtIn(mid, hi, v)
                                           ELSE ISqrtIn(lo, mid - 1, v) :
                          mid \in {(lo + hi + 1) \div 2} } : TRUE

\* a ** 0.5 (a >= 0); 46340 is the largest root of a 32-bit value
FSqrt(a) ==
    CHOOSE root \in { IF a * Scale - s * s > s THEN s + 1 ELSE s :
                          s \in {ISqrtIn(0, 46340, a * Scale)} } : TRUE

\* int(q): truncation toward zero
int(q) == IF q >= 0 THEN q \div Scale ELSE -((-q) \div Scale)

\* Rope.tension before the first force computation
None == <<>>

\* ----- entities ---------------------------------------------------------

Mass(name, x, y, vx, vy, mass, fx, fy) ==
    [name |-> name, x |-> x, y |-> y, vx |-> vx, vy |-> vy,
     mass |-> mass, fx |-> fx, fy |-> fy]

Anchor(name, x, y) == [name |-> name, x |-> x, y |-> y]

Rope(start, end, length, spring) ==
    [start |-> start, end |-> end, length |-> length, spring |-> spring,
     tension |-> None]

\* references held by Rope.start and Rope.end
MassRef(k) == [kind |-> "Mass", idx |-> k]

AnchorRef(k) == [kind |-> "Anchor", idx |-> k]

Settings(duration_seconds, timestep) ==
    [duration_seconds |-> duration_seconds, timestep |-> timestep]

GRAVITY == (98 * Scale) \div 10

DAMPING_CONSTANT == 2000000 * Scale

DAMPING_ENABLED == FALSE

\* a literal given in thousandths
Milli(k) == (k * Scale) \div 1000

\* ----- scenarios passed to simulate ---------------------------------------

\* One person between two anchors h above it (h < 0: below), as
\* fall_during_tyrolean builds it, with the anchors at a common height.
Tyrolean(h, length) ==
    [masses  |-> << Mass("person", Milli(10000), Milli(8000), 0, 0, Milli(80000), 0, 0) >>,
     anchors |-> << Anchor("belay", Milli(6000), Milli(8000) + h),
                    Anchor("belay", Milli(14000), Milli(8000) + h) >>,
     ropes   |-> << Rope(MassRef(1), AnchorRef(1), length, Milli(20000)),
                    Rope(MassRef(1), AnchorRef(2), length, Milli(20000)) >>]

\* fall_from_anchor: the person starts on the anchor.
FallFromAnchor(length) ==
    [masses  |-> << Mass("person", Milli(10000), Milli(8000), 0, 0, Milli(80000), 0, 0) >>,
     anchors |-> << Anchor("belay", Milli(10000), Milli(8000)) >>,
     ropes   |-> << Rope(MassRef(1), AnchorRef(1), length, Milli(20000)) >>]

\* A person dy above an anchor (dy < 0: hanging below it) on one rope,
\* held at the rope's start or at its end.
Vertical(dy, length, massIsStart) ==
    [masses  |-> << Mass("person", Milli(10000), Milli(8000) + dy, 0, 0, Milli(2000), 0, 0) >>,
     anchors |-> << Anchor("belay", Milli(10000), Milli(8000)) >>,
     ropes   |-> << IF massIsStart
                    THEN Rope(MassRef(1), AnchorRef(1), length, Milli(20000))
                    ELSE Rope(AnchorRef(1), MassRef(1), length, Milli(20000)) >>]

\* Two moving masses tied to each other, the second also tied to an anchor;
\* both carry force values left over from before the call.
TwoMasses(firstIsStart) ==
    [masses  |-> << Mass("a", Milli(10000), Milli(8000), Milli(1000), 0,
                         Milli(2000), Milli(3000), Milli(4000)),
                    Mass("b", Milli(13000), Milli(12000), 0, Milli(500),
                         Milli(1000), Milli(-1000), Milli(2000)) >>,
     anchors |-> << Anchor("belay", Milli(13000), Milli(15000)) >>,
     ropes   |-> << IF firstIsStart
                    THEN Rope(MassRef(1), MassRef(2), Milli(4000), Milli(20000))
                    ELSE Rope(MassRef(2), MassRef(1), Milli(4000), Milli(20000)),
                    Rope(MassRef(2), AnchorRef(1), Milli(2000), Milli(20000)) >>]

\* A mass with no rope at all, carrying stale force values.
Free(mass) ==
    [masses  |-> << Mass("person", Milli(10000), Milli(8000), 0, 0, mass,
                         Milli(3000), Milli(4000)) >>,
     anchors |-> << >>,
     ropes   |-> << >>]

Scenarios ==
    { Tyrolean(h, l) : h \in {Milli(3000), 0, Milli(-3000)},
                       l \in {Milli(3000), Milli(6000)} }
    \cup { FallFromAnchor(l) : l \in {Milli(6000), Milli(50)} }
    \cup { Vertical(dy, Milli(50), s) :
               dy \in {Milli(98), Milli(2450), Milli(-4000)}, s \in BOOLEAN }
    \cup { TwoMasses(s) : s \in BOOLEAN }
    \cup { Free(m) : m \in {Milli(1000), Milli(2500), Milli(80000)} }

Timesteps == {Milli(100), Milli(300), Milli(500)}

Durations == {Milli(200), Milli(500), MaxDuration * Milli(100)}

\* Inputs that break the caller's contract: a mass, a timestep or a
\* duration that is not positive.
BadScenarios ==
    { Free(m) : m \in {0, Milli(-1000)} }
    \cup { [ TwoMasses(TRUE) EXCEPT !.masses[2].mass = 0 ] }

BadTimesteps == {0, Milli(-100)}

BadDurations == {0, Milli(-500)}

ValidScenario(sc) ==
    /\ \A k \in DOMAIN sc.masses : sc.masses[k].mass > 0
    /\ \A k \in DOMAIN sc.ropes : sc.ropes[k].spring > 0 /\ sc.ropes[k].length >= 0

\* ----- state --------------------------------------------------------------

VARIABLES
    settings,   \* the Settings passed to simulate (never written)
    masses,     \* the list of Mass objects, mutated in place
    anchors,    \* the list of Anchor objects
    ropes,      \* the list of Rope objects; only tension is written
    snapshots,  \* the list simulate builds and returns
    steps,      \* int(duration_seconds / timestep), the last value of i
    i,          \* the loop variable of simulate
    r,          \* how many ropes of the rope loop this step has handled
    fx, fy,     \* the locals fx, fy of the rope loop
    pc,         \* where simulate is
    initial     \* the masses as they were when simulate was called

vars == << settings, masses, anchors, ropes, snapshots, steps, i, r, fx, fy, pc, initial >>

\* ----- Mass, Rope ---------------------------------------------------------

Mass_snapshot(m) == << m.name, m.x, m.y >>

\* the object a rope end refers to
Endpoint(ref, ms, an) == IF ref.kind = "Mass" THEN ms[ref.idx] ELSE an[ref.idx]

x_dist(rope, ms, an) == Endpoint(rope.start, ms, an).x - Endpoint(rope.end, ms, an).x

y_dist(rope, ms, an) == Endpoint(rope.start, ms, an).y - Endpoint(rope.end, ms, an).y

\* distance as calculate_forces computes it
Distance(rope, ms, an) ==
    LET xd == x_dist(rope, ms, an)
        yd == y_dist(rope, ms, an)
    IN  FSqrt(FMul(xd, xd) + FMul(yd, yd))

\* calculate_tension with the natural length left out of the stretch
calculate_tension_whole_distance(rope, distance) ==
    IF distance <= rope.length
    THEN << 0 >>
    ELSE << FMul(rope.spring, distance) >>

\* the value calculate_tension stores in rope.tension
calculate_tension(rope, distance) ==
    IF distance <= rope.length
    THEN << 0 >>
    ELSE << FMul(rope.spring, distance - rope.length) >>

\* the pair calculate_forces returns, and rope.tension as it leaves it
calculate_forces(rope, ms, an) ==
    CHOOSE result \in
        { IF distance = 0
          THEN [fx |-> 0, fy |-> 0, tension |-> rope.tension]
          ELSE CHOOSE applied \in
                  { [fx |-> FMul(FDiv(-x_dist(rope, ms, an), distance), tension[1]),
                     fy |-> FMul(FDiv(-y_dist(rope, ms, an), distance), tension[1]),
                     tension |-> tension] :
                        tension \in {calculate_tension(rope, distance)} } : TRUE
          : distance \in {Distance(rope, ms, an)} } : TRUE

Rope_snapshot(rope, ms, an) ==
    << Endpoint(rope.start, ms, an).x, Endpoint(rope.start, ms, an).y,
       Endpoint(rope.end, ms, an).x, Endpoint(rope.end, ms, an).y,
       rope.tension >>

\* ----- simulate -----------------------------------------------------------

\* the iterations of a range that runs one value too far
StepCountOneMore(s) == int(FDiv(s.duration_seconds, s.timestep)) + 1

\* the number of iterations of range(1, int(duration_seconds / timestep) + 1)
StepCount(s) == int(FDiv(s.duration_seconds, s.timestep))

\* a reset that sets gravity and leaves fx as it was
ResetForceKeepsFx(m) == [m EXCEPT !.fy = FMul(-GRAVITY, m.mass)]

\* "Reset forces"
ResetForce(m) == [m EXCEPT !.fx = 0, !.fy = FMul(-GRAVITY, m.mass)]

\* a guard on the force being nonzero, whatever its signs
ForceAppliedAnySign(ax, ay) == ax # 0 \/ ay # 0

\* the guard on applying a rope's force
ForceApplied(ax, ay) == ax > 0 \/ ay > 0

\* the damping branch of an endpoint
Damp(ms, ref, dt) ==
    IF DAMPING_ENABLED
    THEN [ms EXCEPT
            ![ref.idx].fx = @ - FMul(FDiv(FMul(DAMPING_CONSTANT, ms[ref.idx].vx),
                                          ms[ref.idx].mass), dt),
            ![ref.idx].fy = @ - FMul(FDiv(FMul(DAMPING_CONSTANT, ms[ref.idx].vy),
                                          ms[ref.idx].mass), dt)]
    ELSE ms

\* if isinstance(rope.start, Mass): rope.start.fx += fx ...
ApplyToStart(ms, rope, ax, ay, dt) ==
    IF rope.start.kind = "Mass"
    THEN Damp([ms EXCEPT ![rope.start.idx].fx = @ + ax,
                         ![rope.start.idx].fy = @ + ay], rope.start, dt)
    ELSE ms

\* an end that receives the start's force instead of its negation
ApplyToEndSameSign(ms, rope, ax, ay, dt) ==
    IF rope.end.kind = "Mass"
    THEN Damp([ms EXCEPT ![rope.end.idx].fx = @ + ax,
                         ![rope.end.idx].fy = @ + ay], rope.end, dt)
    ELSE ms

\* if isinstance(rope.end, Mass): rope.end.fx -= fx ...
ApplyToEnd(ms, rope, ax, ay, dt) ==
    IF rope.end.kind = "Mass"
    THEN Damp([ms EXCEPT ![rope.end.idx].fx = @ - ax,
                         ![rope.end.idx].fy = @ - ay], rope.end, dt)
    ELSE ms

\* a velocity update that takes the force for the acceleration
UpdateVelocityByForce(m, dt) ==
    [m EXCEPT !.vx = @ + FMul(m.fx, dt),
              !.vy = @ + FMul(m.fy, dt)]

\* "Apply accelerations to adjust velocities"
UpdateVelocity(m, dt) ==
    [m EXCEPT !.vx = @ + FMul(FDiv(m.fx, m.mass), dt),
              !.vy = @ + FMul(FDiv(m.fy, m.mass), dt)]

\* "Update positions"
UpdatePosition(m, dt) ==
    [m EXCEPT !.x = @ + FMul(dt, m.vx),
              !.y = @ + FMul(dt, m.vy)]

\* the entry appended to snapshots
TakeSnapshot(ms, an, rs) ==
    << [k \in DOMAIN ms |-> Mass_snapshot(ms[k])],
       [k \in DOMAIN rs |-> Rope_snapshot(rs[k], ms, an)] >>

InitOf(scs, durs, dts) ==
    \E sc \in scs, d \in durs, dt \in dts :
        /\ settings = Settings(d, dt)
        /\ masses = sc.masses
        /\ anchors = sc.anchors
        /\ ropes = sc.ropes
        /\ initial = sc.masses
        /\ snapshots = << >>
        /\ steps = 0
        /\ i = 0
        /\ r = 0
        /\ fx = 0
        /\ fy = 0
        /\ pc = "start"

\* simulate is called with positive masses, timestep and duration
Init == InitOf(Scenarios, Durations, Timesteps)

\* simulate is called with any input
InitAny ==
    InitOf(Scenarios \cup BadScenarios, Durations \cup BadDurations,
           Timesteps \cup BadTimesteps)

\* the loop header is evaluated: the range is built and i takes its first value
Begin ==
    /\ pc = "start"
    /\ settings.timestep # 0
    /\ steps' = StepCount(settings)
    /\ IF StepCount(settings) >= 1
       THEN i' = 1 /\ pc' = "reset"
       ELSE i' = i /\ pc' = "done"
    /\ UNCHANGED << settings, masses, anchors, ropes, snapshots, r, fx, fy, initial >>

\* duration_seconds / timestep raises ZeroDivisionError
RaiseInRange ==
    /\ pc = "start"
    /\ settings.timestep = 0
    /\ pc' = "raised"
    /\ UNCHANGED << settings, masses, anchors, ropes, snapshots, steps, i, r, fx, fy, initial >>

\* for mass in masses: reset forces
ResetForces ==
    /\ pc = "reset"
    /\ masses' = [k \in DOMAIN masses |-> ResetForce(masses[k])]
    /\ r' = 0
    /\ pc' = IF Len(ropes) = 0 THEN "velocity" ELSE "ropes"
    /\ UNCHANGED << settings, anchors, ropes, snapshots, steps, i, fx, fy, initial >>

\* one iteration of "for rope in ropes"
ApplyRope ==
    /\ pc = "ropes"
    /\ r < Len(ropes)
    /\ \E f \in {calculate_forces(ropes[r + 1], masses, anchors)} :
           /\ ropes' = [ropes EXCEPT ![r + 1].tension = f.tension]
           /\ fx' = f.fx
           /\ fy' = f.fy
           /\ masses' = IF ForceApplied(f.fx, f.fy)
                        THEN ApplyToEnd(
                                 ApplyToStart(masses, ropes[r + 1], f.fx, f.fy,
                                              settings.timestep),
                                 ropes[r + 1], f.fx, f.fy, settings.timestep)
                        ELSE masses
    /\ r' = r + 1
    /\ pc' = IF r + 1 = Len(ropes) THEN "velocity" ELSE "ropes"
    /\ UNCHANGED << settings, anchors, snapshots, steps, i, initial >>

\* for mass in masses: adjust velocities
IntegrateVelocity ==
    /\ pc = "velocity"
    /\ \A k \in DOMAIN masses : masses[k].mass # 0
    /\ masses' = [k \in DOMAIN masses |-> UpdateVelocity(masses[k], settings.timestep)]
    /\ pc' = "position"
    /\ UNCHANGED << settings, anchors, ropes, snapshots, steps, i, r, fx, fy, initial >>

\* mass.fx / mass.mass raises ZeroDivisionError at the first mass whose mass
\* is 0; the masses before it already have their new velocity
RaiseInVelocity ==
    /\ pc = "velocity"
    /\ \E z \in DOMAIN masses :
          /\ masses[z].mass = 0
          /\ \A k \in 1..(z - 1) : masses[k].mass # 0
          /\ masses' = [k \in DOMAIN masses |->
                           IF k < z THEN UpdateVelocity(masses[k], settings.timestep)
                           ELSE masses[k]]
    /\ pc' = "raised"
    /\ UNCHANGED << settings, anchors, ropes, snapshots, steps, i, r, fx, fy, initial >>

\* for mass in masses: update positions
IntegratePosition ==
    /\ pc = "position"
    /\ masses' = [k \in DOMAIN masses |-> UpdatePosition(masses[k], settings.timestep)]
    /\ pc' = "snapshot"
    /\ UNCHANGED << settings, anchors, ropes, snapshots, steps, i, r, fx, fy, initial >>

\* snapshots.append(...), then the loop takes its next value or ends
SaveSnapshot ==
    /\ pc = "snapshot"
    /\ snapshots' = Append(snapshots, TakeSnapshot(masses, anchors, ropes))
    /\ IF i < steps
       THEN i' = i + 1 /\ pc' = "reset"
       ELSE i' = i /\ pc' = "done"
    /\ UNCHANGED << settings, masses, anchors, ropes, steps, r, fx, fy, initial >>

Next ==
    \/ Begin
    \/ ResetForces
    \/ ApplyRope
    \/ IntegrateVelocity
    \/ IntegratePosition
    \/ SaveSnapshot

Spec == Init /\ [][Next]_vars

NextAny ==
    \/ Begin
    \/ RaiseInRange
    \/ ResetForces
    \/ ApplyRope
    \/ IntegrateVelocity
    \/ RaiseInVelocity
    \/ IntegratePosition
    \/ SaveSnapshot

SpecAny == InitAny /\ [][NextAny]_vars

\* simulate under the sequential execution of its loop: a step that can be
\* taken is taken
FairSpec == Spec /\ WF_vars(Next)

\* ----- properties ---------------------------------------------------------

\* the input satisfies mass > 0, spring > 0, length >= 0
ValidInput == ValidScenario([masses |-> initial, ropes |-> ropes])

\* rope r of this step's rope loop has been handled and nothing has moved since
Handled == pc \in {"ropes", "velocity"} /\ r >= 1

\* the tension the force law assigns to a rope at separation d
LawTension(rope, d) ==
    IF d <= rope.length THEN 0 ELSE FMul(rope.spring, d - rope.length)

\* C1: in every snapshot, every rope's recorded tension is a number >= 0,
\* never None, for every input with mass > 0, spring > 0 and length >= 0.
C1_TensionSetAndNonNegative ==
    ValidInput =>
        \A k \in 1..Len(snapshots) : \A j \in DOMAIN snapshots[k][2] :
            LET t == snapshots[k][2][j][5]
            IN  t # None /\ t[1] >= 0

\* one mass at rest tied by two ropes of equal length and spring to two
\* anchors at a common height, placed symmetrically about the mass
SymmetricAtRest ==
    /\ Len(masses) = 1 /\ Len(anchors) = 2 /\ Len(ropes) = 2
    /\ \A j \in 1..2 :
          {ropes[j].start, ropes[j].end} = {MassRef(1), AnchorRef(j)}
    /\ ropes[1].length = ropes[2].length
    /\ ropes[1].spring = ropes[2].spring
    /\ anchors[1].y = anchors[2].y
    /\ anchors[1].x # anchors[2].x
    /\ anchors[1].x + anchors[2].x = 2 * initial[1].x
    /\ initial[1].vx = 0 /\ initial[1].vy = 0

\* C2: in the symmetric two-rope scenario the mass's vx and x keep their
\* initial values after every step, wherever the anchors' height is.
C2_SymmetricStaysCentred ==
    SymmetricAtRest =>
        masses[1].x = initial[1].x /\ masses[1].vx = initial[1].vx

\* C3: simulate terminates; when it has, the number of snapshots is
\* floor(duration_seconds / timestep); while it runs, the steps before the
\* current one have one snapshot each; and a snapshot, once appended at the
\* end of the list with the values of that step, is never changed.
C3_SnapshotCount ==
    /\ <>(pc = "done")
    /\ [](pc = "done" =>
            LET q == FDiv(settings.duration_seconds, settings.timestep)
            IN  /\ Len(snapshots) * Scale <= q
                /\ q < (Len(snapshots) + 1) * Scale)
    /\ [](pc \in {"reset", "ropes", "velocity", "position", "snapshot"} =>
            Len(snapshots) = i - 1)
    /\ [][\/ snapshots' = snapshots
          \/ /\ snapshots' = Append(snapshots, TakeSnapshot(masses, anchors, ropes'))
             /\ \A k \in DOMAIN masses :
                   snapshots'[Len(snapshots')][1][k] =
                       << masses[k].name, masses[k].x, masses[k].y >>]_vars

\* a run over a duration that is no multiple of the timestep has ended
C3_Witness ==
    /\ pc = "done"
    /\ Len(snapshots) >= 3
    /\ settings.duration_seconds % settings.timestep # 0

\* C4: when the two ends of the rope just handled have identical
\* coordinates, the rope's tension is 0 and the force it returned is (0, 0).
C4_CoincidentGivesZeroTension ==
    (/\ Handled
     /\ x_dist(ropes[r], masses, anchors) = 0
     /\ y_dist(ropes[r], masses, anchors) = 0)
    => /\ ropes[r].tension = << 0 >>
       /\ fx = 0 /\ fy = 0

\* the input has a mass, a timestep or a duration that is not positive
ConfigError ==
    \/ \E k \in DOMAIN initial : initial[k].mass <= 0
    \/ settings.timestep <= 0
    \/ settings.duration_seconds <= 0

\* C5: on a configuration error simulate fails before any step runs: it
\* never gets past its start except by raising, and no mass, rope or
\* snapshot has been written.
C5_ConfigErrorRejected ==
    ConfigError =>
        /\ pc \in {"start", "raised"}
        /\ masses = initial
        /\ snapshots = << >>
        /\ \A j \in DOMAIN ropes : ropes[j].tension = None

\* C6: handling a rope adds to its end the exact negation of what it adds to
\* its start: either (fx, fy) to a Mass start and (-fx, -fy) to a Mass end,
\* or nothing to both; two Mass ends receive increments that sum to (0, 0);
\* no other mass changes, and no step changes an anchor.
C6_ForceSymmetry ==
    [][/\ anchors' = anchors
       /\ pc = "ropes" =>
            LET rope == ropes[r + 1]
                dfx(k) == masses'[k].fx - masses[k].fx
                dfy(k) == masses'[k].fy - masses[k].fy
                s == rope.start.idx
                e == rope.end.idx
                startIsMass == rope.start.kind = "Mass"
                endIsMass == rope.end.kind = "Mass"
            IN  /\ \E on \in BOOLEAN :
                      /\ startIsMass /\ ~(endIsMass /\ e = s) =>
                            dfx(s) = (IF on THEN fx' ELSE 0) /\ dfy(s) = (IF on THEN fy' ELSE 0)
                      /\ endIsMass /\ ~(startIsMass /\ e = s) =>
                            dfx(e) = (IF on THEN -fx' ELSE 0) /\ dfy(e) = (IF on THEN -fy' ELSE 0)
                /\ startIsMass /\ endIsMass /\ s # e =>
                      dfx(s) + dfx(e) = 0 /\ dfy(s) + dfy(e) = 0
                /\ \A k \in DOMAIN masses :
                      ~(startIsMass /\ k = s) /\ ~(endIsMass /\ k = e) =>
                          masses'[k] = masses[k]]_vars

\* a rope between two masses has just had its force applied to both
C6_Witness ==
    /\ Handled
    /\ ropes[r].start.kind = "Mass" /\ ropes[r].end.kind = "Mass"
    /\ fx > 0 /\ fy > 0
    /\ masses[ropes[r].start.idx].fx = fx
    /\ masses[ropes[r].end.idx].fx < 0

\* a tension value of a rope that pulls nothing
Slack(t) == t = None \/ t = << 0 >>

\* the ropes tied to mass k
RopesOf(k) ==
    { j \in DOMAIN ropes : MassRef(k) \in {ropes[j].start, ropes[j].end} }

\* mass k started at rest and every rope tied to it was slack at every step
\* so far (the step in progress included)
FreeFall(k) ==
    /\ initial[k].vx = 0 /\ initial[k].vy = 0
    /\ \A j \in RopesOf(k) :
          /\ \A n \in 1..Len(snapshots) : Slack(snapshots[n][2][j][5])
          /\ Slack(ropes[j].tension)

\* 1 + 2 + ... + n
Triangle(n) == (n * (n + 1)) \div 2

\* C7: a mass that starts at rest and receives no rope force has, after n
\* steps, vy = -g*n*dt, vx and x unchanged and y = y0 + dt * (vy_1 + ... +
\* vy_n) with vy_k = -g*k*dt; inside step n+1, once the velocity is updated
\* and before the position is, vy is already vy_(n+1) while y is still the
\* value after n steps.  The mass value does not occur.
C7_FreeFallRecurrence ==
    \A k \in DOMAIN masses :
        FreeFall(k) =>
            LET n == Len(snapshots)
                dt == settings.timestep
                gdt == FMul(GRAVITY, dt)
                yAfter(m) == initial[k].y + FMul(dt, -gdt * Triangle(m))
            IN  /\ masses[k].vx = 0
                /\ masses[k].x = initial[k].x
                /\ pc \in {"reset", "done"} =>
                      masses[k].vy = -n * gdt /\ masses[k].y = yAfter(n)
                /\ pc = "position" =>
                      masses[k].vy = -(n + 1) * gdt /\ masses[k].y = yAfter(n)
                /\ pc = "snapshot" =>
                      masses[k].vy = -(n + 1) * gdt /\ masses[k].y = yAfter(n + 1)

\* a mass tied to ropes that stayed slack has fallen for three steps
C7_Witness ==
    /\ pc = "done"
    /\ Len(snapshots) >= 3
    /\ RopesOf(1) # {}
    /\ FreeFall(1)
    /\ masses[1].vy < 0 /\ masses[1].y < initial[1].y

Contribution(j, k) ==
    LET f == calculate_forces(ropes[j], masses, anchors)
        on == f.fx > 0 \/ f.fy > 0
        atStart == IF on /\ ropes[j].start = MassRef(k) THEN 1 ELSE 0
        atEnd == IF on /\ ropes[j].end = MassRef(k) THEN 1 ELSE 0
    IN  << (atStart - atEnd) * f.fx, (atStart - atEnd) * f.fy >>

RECURSIVE RopeForceSum(_, _)
\* the forces the first j ropes add to mass k
RopeForceSum(j, k) ==
    IF j = 0 THEN << 0, 0 >>
    ELSE LET rest == RopeForceSum(j - 1, k)
             c == Contribution(j, k)
         IN  << rest[1] + c[1], rest[2] + c[2] >>

\* C10: once the rope forces of a step are accumulated, each mass's (fx, fy)
\* is (0, -g * mass) plus the rope forces applied to it in this step, whatever
\* fx, fy it held before the step.
C10_ForceIsPerStep ==
    pc \in {"velocity", "position"} =>
        \A k \in DOMAIN masses :
            LET sum == RopeForceSum(Len(ropes), k)
            IN  /\ masses[k].fx = sum[1]
                /\ masses[k].fy = FMul(-GRAVITY, masses[k].mass) + sum[2]

\* in a later step, a mass that was passed in with a force and had one in the
\* step before holds this step's rope force
C10_Witness ==
    /\ pc = "velocity"
    /\ i >= 2
    /\ \E k \in DOMAIN masses :
          /\ initial[k].fx # 0
          /\ masses[k].fx # 0
          /\ masses[k].fx # initial[k].fx

====
